---- MODULE Spec2Model ----
(***************************************************************************)
(* Model of the two demo clients of the Freelance MCP repository:          *)
(*   src/freelance_client.py   class FreelanceMCPClient and its run modes  *)
(*   src/freelance_client2.py  class FreelanceClient and its workflows     *)
(*                                                                         *)
(* Python values are modelled as tagged records (PyNone, Num, Str, List,   *)
(* Obj); a Python str is a sequence of pieces, so that concatenation is    *)
(* \o; a text content part is a sequence of JSON lexemes, which json.loads *)
(* is modelled to parse.                                                   *)
(***************************************************************************)
EXTENDS Integers, Sequences, FiniteSets, TLC

VARIABLES
    session,        \* self.session: 0 is None, otherwise an index into sessions
    read,           \* self.read:  0 is "attribute not set", otherwise a transport
    write,          \* self.write: 0 is "attribute not set", otherwise a transport
    client_context, \* FreelanceClient.client_context: 0 unset, otherwise a transport
    sessions,       \* every ClientSession object created so far
    transports,     \* every stdio_client transport created so far
    files,          \* the files present in the working directory
    last,           \* the last completed operation on the client and its outcome
    server,         \* what the stub server answers to each kind of request
    inflight,       \* the requests sent on the session and not yet ended
    mode,           \* the entry point that is running
    pc,             \* the statement the run mode is at
    idx,            \* the demo run_interactive_demo is at (1..9), else 0
    attempts,       \* the number of connect() calls made on the client
    nested,         \* run_interactive_demo was called by the 'demo' command
    pend,           \* the exception a finally / __aexit__ has to re-raise
    exc             \* the exception that left the run mode, once it is done

client == <<session, read, write, client_context>>
pools == <<sessions, transports>>
control == <<mode, pc, idx, attempts, nested, pend, exc>>
vars == <<session, read, write, client_context, sessions, transports, files,
          last, server, inflight, mode, pc, idx, attempts, nested, pend, exc>>

(***************************************************************************)
(* Bounds                                                                  *)
(***************************************************************************)
MaxTextLen == 5     \* longest enumerated text content part, in lexemes
MaxParts == 2       \* most content parts in an enumerated response
MaxConnects == 2    \* most connect() calls of one interactive run
MaxBudget == 4      \* largest max_budget a caller passes to search_gigs
MaxRate == 3        \* largest hourly rate a caller passes to negotiate_rate

(***************************************************************************)
(* Python values                                                           *)
(***************************************************************************)
PyNone == [kind |-> "none"]
NoAttr == [kind |-> "noattr"]       \* hasattr(result, name) is False
Num(n) == [kind |-> "num", n |-> n]
Bool(b) == [kind |-> "bool", b |-> b]
Str(s) == [kind |-> "str", s |-> s]
List(xs) == [kind |-> "list", items |-> xs]
Obj(f) == [kind |-> "obj", map |-> f]
EmptyMap == <<>>

\* bool(v), as the `if x:` and `a and b` tests of the source evaluate it
Truthy(v) ==
    CASE v.kind = "none" -> FALSE
      [] v.kind = "noattr" -> FALSE
      [] v.kind = "num" -> v.n # 0
      [] v.kind = "bool" -> v.b
      [] v.kind = "str" -> v.s # <<>>
      [] v.kind = "list" -> v.items # <<>>
      [] v.kind = "obj" -> DOMAIN v.map # {}
      [] OTHER -> TRUE

\* outcome of a call: a returned value or a raised exception
Return(v) == [raised |-> FALSE, value |-> v]
Raise(t, m) == [raised |-> TRUE, type |-> t, msg |-> m]

\* `except Exception` catches every exception type but the BaseException ones
IsException(o) == o.raised /\ o.type \notin {"KeyboardInterrupt", "CancelledError"}

(***************************************************************************)
(* json.loads on a text, given as its sequence of lexemes                  *)
(***************************************************************************)
NumToks == {"0", "1", "60"}
NumOf(tok) == CASE tok = "0" -> 0 [] tok = "1" -> 1 [] tok = "60" -> 60
StrToks == {"\"a\"", "\"error\"", "\"response\"", "\"gigs\""}
StrOf(tok) ==
    CASE tok = "\"a\"" -> "a"
      [] tok = "\"error\"" -> "error"
      [] tok = "\"response\"" -> "response"
      [] tok = "\"gigs\"" -> "gigs"

ParseFail == [ok |-> FALSE, val |-> PyNone, rest |-> <<>>]
ParseOk(v, r) == [ok |-> TRUE, val |-> v, rest |-> r]

RECURSIVE ParseValue(_), ParseMembers(_, _), ParseElements(_, _)

\* one JSON value at the head of t
ParseValue(t) ==
    IF t = <<>> THEN ParseFail
    ELSE LET h == Head(t)
             r == Tail(t)
         IN CASE h \in NumToks -> ParseOk(Num(NumOf(h)), r)
              [] h \in StrToks -> ParseOk(Str(<<StrOf(h)>>), r)
              [] h = "null" -> ParseOk(PyNone, r)
              [] h = "true" -> ParseOk(Bool(TRUE), r)
              [] h = "false" -> ParseOk(Bool(FALSE), r)
              [] h = "{" -> IF r # <<>> /\ Head(r) = "}"
                            THEN ParseOk(Obj(EmptyMap), Tail(r))
                            ELSE ParseMembers(r, EmptyMap)
              [] h = "[" -> IF r # <<>> /\ Head(r) = "]"
                            THEN ParseOk(List(<<>>), Tail(r))
                            ELSE ParseElements(r, <<>>)
              [] OTHER -> ParseFail

\* "key" : value , ... } with the members read so far in acc; a repeated
\* key keeps its last value
ParseMembers(t, acc) ==
    IF Len(t) < 2 \/ Head(t) \notin StrToks THEN ParseFail
    ELSE IF t[2] # ":" THEN ParseFail
    ELSE LET v == ParseValue(SubSeq(t, 3, Len(t)))
         IN IF ~v.ok \/ v.rest = <<>> THEN ParseFail
            ELSE LET acc2 == (StrOf(Head(t)) :> v.val) @@ acc
                 IN CASE Head(v.rest) = "}" -> ParseOk(Obj(acc2), Tail(v.rest))
                      [] Head(v.rest) = "," -> ParseMembers(Tail(v.rest), acc2)
                      [] OTHER -> ParseFail

\* value , ... ] with the elements read so far in acc
ParseElements(t, acc) ==
    LET v == ParseValue(t)
    IN IF ~v.ok \/ v.rest = <<>> THEN ParseFail
       ELSE CASE Head(v.rest) = "]" -> ParseOk(List(Append(acc, v.val)), Tail(v.rest))
              [] Head(v.rest) = "," -> ParseElements(Tail(v.rest), Append(acc, v.val))
              [] OTHER -> ParseFail

\* json.loads(text): the value, or json.JSONDecodeError
json_loads(text) ==
    LET p == ParseValue(text)
    IN IF p.ok /\ p.rest = <<>> THEN Return(p.val)
       ELSE Raise("JSONDecodeError", <<"Expecting value">>)

(***************************************************************************)
(* Tool-call responses (mcp.types.CallToolResult)                          *)
(***************************************************************************)
TextContent(t) == [type |-> "text", text |-> t]
ImageContent == [type |-> "image"]
CallToolResult(sc, parts) == [structuredContent |-> sc, content |-> parts]

\* isinstance(content, types.TextContent)
IsTextContent(c) == c.type = "text"

RECURSIVE FirstText_Unparsed(_)
\* FirstText without the json.loads attempt: every text is returned raw
FirstText_Unparsed(parts) ==
    IF parts = <<>> THEN Return(Obj("error" :> Str(<<"No valid response received">>)))
    ELSE IF IsTextContent(Head(parts))
         THEN Return(Obj("response" :> Str(Head(parts).text)))
         ELSE FirstText_Unparsed(Tail(parts))

RECURSIVE FirstText_Unguarded(_)
\* FirstText without the `except json.JSONDecodeError` clause
FirstText_Unguarded(parts) ==
    IF parts = <<>> THEN Return(Obj("error" :> Str(<<"No valid response received">>)))
    ELSE IF IsTextContent(Head(parts))
         THEN json_loads(Head(parts).text)
         ELSE FirstText_Unguarded(Tail(parts))

RECURSIVE FirstText_NoFinalReturn(_)
\* FirstText without the statement after the loop: the method returns None
FirstText_NoFinalReturn(parts) ==
    IF parts = <<>> THEN Return(PyNone)
    ELSE IF IsTextContent(Head(parts))
         THEN LET j == json_loads(Head(parts).text)
              IN IF j.raised
                 THEN Return(Obj("response" :> Str(Head(parts).text)))
                 ELSE Return(j.value)
         ELSE FirstText_NoFinalReturn(Tail(parts))

RECURSIVE FirstText_SkipsUnparsable(_)
\* FirstText whose except clause goes on with the next part; the raw text
\* is returned only for the last text part
FirstText_SkipsUnparsable(parts) ==
    IF parts = <<>> THEN Return(Obj("error" :> Str(<<"No valid response received">>)))
    ELSE IF IsTextContent(Head(parts))
         THEN LET j == json_loads(Head(parts).text)
                  later == FirstText_SkipsUnparsable(Tail(parts))
              IN IF ~j.raised THEN Return(j.value)
                 ELSE IF later = Return(Obj("error" :> Str(<<"No valid response received">>)))
                      THEN Return(Obj("response" :> Str(Head(parts).text)))
                 ELSE later
         ELSE FirstText_SkipsUnparsable(Tail(parts))

RECURSIVE FirstText(_)
\* the `for content in result.content` loop: the first TextContent part is
\* parsed, a JSONDecodeError falls back to {"response": text}; the loop
\* returns at that part.  No TextContent part: {"error": ...}
FirstText(parts) ==
    IF parts = <<>> THEN Return(Obj("error" :> Str(<<"No valid response received">>)))
    ELSE IF IsTextContent(Head(parts))
         THEN LET j == json_loads(Head(parts).text)
              IN IF j.raised
                 THEN Return(Obj("response" :> Str(Head(parts).text)))
                 ELSE Return(j.value)
         ELSE FirstText(Tail(parts))

\* the decoding block that follows every call_tool of FreelanceClient
\* DecodeToolResult that takes any structured payload that is present
DecodeToolResult_PresenceTest(result) ==
    IF result.structuredContent \notin {NoAttr, PyNone}
    THEN Return(result.structuredContent)
    ELSE FirstText(result.content)

DecodeToolResult(result) ==
    IF result.structuredContent # NoAttr /\ Truthy(result.structuredContent)
    THEN Return(result.structuredContent)
    ELSE FirstText(result.content)

(***************************************************************************)
(* Requests on the session                                                 *)
(***************************************************************************)
\* `await self.session.<attr>(...)`: with self.session None the attribute
\* lookup raises; otherwise the outcome is the one the session produces
SessionCall(attr, stub) ==
    IF session = 0
    THEN Raise("AttributeError", <<"'NoneType' object has no attribute '", attr, "'">>)
    ELSE stub

\* {"error": f"Failed to <operation>: {str(e)}"}
Failed(operation, e) == Return(Obj("error" :> Str(<<"Failed to ", operation, ": ">> \o e.msg)))

(***************************************************************************)
(* FreelanceClient: the tool-invoking methods                              *)
(***************************************************************************)
create_user_profile(stub) ==
    LET result == SessionCall("call_tool", stub)
    IN IF result.raised THEN result ELSE DecodeToolResult(result.value)

search_gigs(stub) ==
    LET result == SessionCall("call_tool", stub)
    IN IF result.raised THEN result ELSE DecodeToolResult(result.value)

review_code_file(stub) ==
    LET result == SessionCall("call_tool", stub)
    IN IF IsException(result) THEN Failed("review code", result)
       ELSE IF result.raised THEN result
       ELSE DecodeToolResult(result.value)

debug_code_file(stub) ==
    LET result == SessionCall("call_tool", stub)
    IN IF IsException(result) THEN Failed("debug code", result)
       ELSE IF result.raised THEN result
       ELSE DecodeToolResult(result.value)

generate_proposal(stub) ==
    LET result == SessionCall("call_tool", stub)
    IN IF IsException(result) THEN Failed("generate proposal", result)
       ELSE IF result.raised THEN result
       ELSE DecodeToolResult(result.value)

analyze_profile_fit(stub) ==
    LET result == SessionCall("call_tool", stub)
    IN IF IsException(result) THEN Failed("analyze profile fit", result)
       ELSE IF result.raised THEN result
       ELSE DecodeToolResult(result.value)

negotiate_rate(stub) ==
    LET result == SessionCall("call_tool", stub)
    IN IF IsException(result) THEN Failed("negotiate rate", result)
       ELSE IF result.raised THEN result
       ELSE DecodeToolResult(result.value)

\* the tool each method names in its call_tool
ToolOf(method) ==
    CASE method = "create_user_profile" -> "create_user_profile"
      [] method = "search_gigs" -> "search_gigs"
      [] method = "review_code_file" -> "code_review"
      [] method = "debug_code_file" -> "code_debug"
      [] method = "generate_proposal" -> "generate_proposal"
      [] method = "analyze_profile_fit" -> "analyze_profile_fit"
      [] method = "negotiate_rate" -> "negotiate_rate"

\* [x.name for x in response]
Names(seq) == List([i \in 1..Len(seq) |-> Str(<<seq[i]>>)])

\* list_available_capabilities with every listing in a try block of its own
\* that leaves the list empty
list_available_capabilities_Guarded(lt, lr, lp) ==
    LET tools_response == SessionCall("list_tools", lt)
        resources_response == SessionCall("list_resources", lr)
        prompts_response == SessionCall("list_prompts", lp)
        Listed(r) == IF r.raised THEN List(<<>>) ELSE Names(r.value)
    IN Return(Obj(("tools" :> Listed(tools_response))
                  @@ ("resources" :> Listed(resources_response))
                  @@ ("prompts" :> Listed(prompts_response))))

\* FreelanceClient.list_available_capabilities: three listings in a row, none
\* of them guarded
list_available_capabilities(lt, lr, lp) ==
    LET tools_response == SessionCall("list_tools", lt)
        resources_response == SessionCall("list_resources", lr)
        prompts_response == SessionCall("list_prompts", lp)
    IN IF tools_response.raised THEN tools_response
       ELSE IF resources_response.raised THEN resources_response
       ELSE IF prompts_response.raised THEN prompts_response
       ELSE Return(Obj(("tools" :> Names(tools_response.value))
                       @@ ("resources" :> Names(resources_response.value))
                       @@ ("prompts" :> Names(prompts_response.value))))

(***************************************************************************)
(* Sessions and transports                                                 *)
(***************************************************************************)
NoExc == Return(PyNone)
Interrupt == Raise("KeyboardInterrupt", <<>>)
LibError == Raise("Exception", <<"boom">>)

NewTransport(st) == [state |-> st, exits |-> 0, wclosed |-> 0, rclosed |-> 0]
NewSession(st, init, t) == [state |-> st, initialized |-> init, exits |-> 0, transport |-> t]

\* the kinds of failure a library call can end in
Faults == {LibError, Interrupt}

(***************************************************************************)
(* FreelanceMCPClient.connect and disconnect                               *)
(***************************************************************************)
\* the awaits of connect, in order; `at` names the one that raises
ConnectSteps == <<"spawn", "enter", "initialize", "list_tools", "list_resources">>
ConnectOutcomes ==
    {[at |-> "none", fault |-> NoExc], [at |-> "list_resource_templates", fault |-> LibError]}
    \cup {[at |-> ConnectSteps[i], fault |-> f] : i \in 1..Len(ConnectSteps), f \in Faults}
    \cup {[at |-> "list_resource_templates", fault |-> Interrupt]}

\* ConnectResult with initialize() guarded like the templates listing
ConnectResult_HandshakeIgnored(o) ==
    IF o.at = "none" \/ (o.at \in {"initialize", "list_resource_templates"}
                           /\ IsException(o.fault))
    THEN NoExc ELSE o.fault

\* what connect raises: the templates listing is the only guarded await
ConnectResult(o) ==
    IF o.at = "none" \/ (o.at = "list_resource_templates" /\ IsException(o.fault))
    THEN NoExc ELSE o.fault

\* connect() that starts over once when the handshake fails: a second
\* transport and a second session within the same call
connect_Retrying(o) ==
    LET tid == Len(transports) + 1
        sid == Len(sessions) + 1
    IN IF o.at = "spawn"
       THEN UNCHANGED <<session, read, write, client_context, sessions, transports>>
       ELSE IF o.at = "initialize"
       THEN /\ transports' = transports \o <<NewTransport("entered"), NewTransport("entered")>>
            /\ read' = tid + 1
            /\ write' = tid + 1
            /\ UNCHANGED client_context
            /\ session' = sid + 1
            /\ sessions' = sessions \o <<NewSession("entered", FALSE, tid),
                                          NewSession("entered", FALSE, tid + 1)>>
       ELSE /\ transports' = Append(transports, NewTransport("entered"))
            /\ read' = tid
            /\ write' = tid
            /\ UNCHANGED client_context
            /\ IF o.at = "enter"
               THEN UNCHANGED <<session, sessions>>
               ELSE /\ session' = sid
                    /\ sessions' = Append(sessions, NewSession("entered", TRUE, tid))

\* connect(): stdio_client(...).__aenter__(), ClientSession(...).__aenter__(),
\* initialize(), _show_server_capabilities()
connect(o) ==
    LET tid == Len(transports) + 1
        sid == Len(sessions) + 1
    IN IF o.at = "spawn"
       THEN UNCHANGED <<session, read, write, client_context, sessions, transports>>
       ELSE /\ transports' = Append(transports, NewTransport("entered"))
            /\ read' = tid
            /\ write' = tid
            /\ UNCHANGED client_context
            /\ IF o.at = "enter"
               THEN UNCHANGED <<session, sessions>>
               ELSE /\ session' = sid
                    /\ sessions' = Append(sessions,
                           NewSession("entered", o.at # "initialize", tid))

\* the awaits of disconnect; `at` names the one that raises
DisconnectOutcomes == {"none", "session", "write", "read"}

\* what disconnect raises in the current state
DisconnectResult(o) ==
    IF session # 0 /\ o = "session" THEN LibError
    ELSE IF write = 0
         THEN Raise("AttributeError", <<"'FreelanceMCPClient' object has no attribute 'write'">>)
    ELSE IF o \in {"write", "read"} THEN LibError
    ELSE NoExc

\* disconnect(): session.__aexit__, write.__aexit__, read.__aexit__, each
\* reached only if the one before it returned
disconnect(o) ==
    /\ sessions' = IF session # 0
                   THEN [sessions EXCEPT ![session].exits = @ + 1,
                                         ![session].state = "exited"]
                   ELSE sessions
    /\ transports' =
          IF (session # 0 /\ o = "session") \/ write = 0 THEN transports
          ELSE IF o = "write"
               THEN [transports EXCEPT ![write].wclosed = @ + 1]
               ELSE [[transports EXCEPT ![write].wclosed = @ + 1]
                        EXCEPT ![read].rclosed = @ + 1]
    /\ UNCHANGED client

(***************************************************************************)
(* FreelanceClient.__aenter__ and __aexit__                                *)
(***************************************************************************)
AEnterSteps == <<"spawn", "enter", "initialize">>
AEnterOutcomes ==
    {[at |-> "none", fault |-> NoExc]}
    \cup {[at |-> AEnterSteps[i], fault |-> f] : i \in 1..Len(AEnterSteps), f \in Faults}

AEnterResult(o) == o.fault

\* __aenter__: client_context and session are assigned before they are entered
aenter(o) ==
    LET tid == Len(transports) + 1
        sid == Len(sessions) + 1
    IN /\ client_context' = tid
       /\ transports' = Append(transports,
              NewTransport(IF o.at = "spawn" THEN "created" ELSE "entered"))
       /\ IF o.at = "spawn"
          THEN UNCHANGED <<read, write, session, sessions>>
          ELSE /\ read' = tid
               /\ write' = tid
               /\ session' = sid
               /\ sessions' = Append(sessions,
                      NewSession(IF o.at = "enter" THEN "created" ELSE "entered",
                                 o.at = "none", tid))

AExitOutcomes == {"none", "session", "context"}

AExitResult(o) ==
    IF session # 0 /\ o = "session" THEN LibError
    ELSE IF o = "context" THEN LibError
    ELSE NoExc

\* __aexit__: session.__aexit__ then client_context.__aexit__, the second
\* reached only if the first returned
aexit(o) ==
    /\ sessions' = IF session # 0
                   THEN [sessions EXCEPT ![session].exits = @ + 1,
                                         ![session].state = "exited"]
                   ELSE sessions
    /\ transports' =
          IF session # 0 /\ o = "session" THEN transports
          ELSE [transports EXCEPT ![client_context].exits = @ + 1,
                                  ![client_context].state = "exited"]
    /\ UNCHANGED client

(***************************************************************************)
(* What a server can answer                                                *)
(***************************************************************************)
\* lexemes of the exhaustively enumerated texts
Alphabet == {"{", "}", "\"a\"", ":", "1"}
AllTexts == UNION {[1..k -> Alphabet] : k \in 0..MaxTextLen}

\* further texts: the two examples of the specification, a list, null, an
\* error object, a two-member object, a repeated key, trailing text
SampleTexts ==
    { <<"{", "\"a\"", ":", "1", "}">>,
      <<"not", "json">>,
      <<"[", "1", ",", "0", "]">>,
      <<"null">>,
      <<"{", "\"error\"", ":", "\"a\"", "}">>,
      <<"{", "\"a\"", ":", "1", ",", "\"gigs\"", ":", "[", "]", "}">>,
      <<"{", "\"a\"", ":", "1", ",", "\"a\"", ":", "0", "}">>,
      <<"{", "}", "1">> }

StructChoices ==
    {NoAttr, PyNone, Obj(EmptyMap), Obj("a" :> Num(1)), Obj("error" :> Str(<<"denied">>))}
PartChoices == {ImageContent} \cup {TextContent(t) : t \in SampleTexts}
Contents == UNION {[1..k -> PartChoices] : k \in 0..MaxParts}

Responses ==
    {CallToolResult(PyNone, <<TextContent(t)>>) : t \in AllTexts}
    \cup {CallToolResult(sc, c) : sc \in StructChoices, c \in Contents}

ExcMessages == {<<"boom">>, <<>>}
CallFaults == {Raise("Exception", m) : m \in ExcMessages} \cup {Interrupt}
StubCallOutcomes == {Return(r) : r \in Responses} \cup CallFaults

Listings == {<<>>, <<"x">>, <<"x", "y">>}
ListingOutcomes == {Return(l) : l \in Listings} \cup {LibError}

\* the session of the client has been entered and initialized and not exited
SessionUsable ==
    /\ session # 0
    /\ sessions[session].state = "entered"
    /\ sessions[session].initialized

(***************************************************************************)
(* SpecCall: a connected FreelanceClient, used through its public methods  *)
(* against a stub server that answers every request of a kind the same way *)
(***************************************************************************)
Op(method, tool, arg, out) == [method |-> method, tool |-> tool, arg |-> arg, out |-> out]

Stub(c, lt, lr, lp) == [call |-> c, tools |-> lt, resources |-> lr, prompts |-> lp]
NoStub == Stub(NoExc, NoExc, NoExc, NoExc)

Stubs ==
    {Stub(c, Return(<<"x">>), Return(<<"x">>), Return(<<>>)) : c \in StubCallOutcomes}
    \cup {Stub(Return(CallToolResult(PyNone, <<>>)), lt, lr, lp) :
            lt \in ListingOutcomes, lr \in ListingOutcomes, lp \in ListingOutcomes}

\* the client after `async with FreelanceClient() as client` has entered
InitCall ==
    /\ server \in Stubs
    /\ inflight = <<>>
    /\ transports = <<NewTransport("entered")>>
    /\ sessions = <<NewSession("entered", TRUE, 1)>>
    /\ session = 1
    /\ read = 1
    /\ write = 1
    /\ client_context = 1
    /\ files = {}
    /\ last = Op("__aenter__", "", NoExc, NoExc)
    /\ mode = "api"
    /\ pc = "body"
    /\ idx = 0
    /\ attempts = 0
    /\ nested = FALSE
    /\ pend = NoExc
    /\ exc = NoExc

Method(m, s) ==
    CASE m = "create_user_profile" -> create_user_profile(s)
      [] m = "search_gigs" -> search_gigs(s)
      [] m = "review_code_file" -> review_code_file(s)
      [] m = "debug_code_file" -> debug_code_file(s)
      [] m = "generate_proposal" -> generate_proposal(s)
      [] m = "analyze_profile_fit" -> analyze_profile_fit(s)
      [] m = "negotiate_rate" -> negotiate_rate(s)

ToolMethods ==
    {"create_user_profile", "search_gigs", "review_code_file", "debug_code_file",
     "generate_proposal", "analyze_profile_fit", "negotiate_rate"}

CallMethod(m) ==
    /\ mode = "api"
    /\ last' = Op(m, ToolOf(m), server.call, Method(m, server.call))
    /\ UNCHANGED <<client, pools, files, server, inflight, control>>

ListCapabilities ==
    /\ mode = "api"
    /\ last' = Op("list_available_capabilities", "",
                  <<server.tools, server.resources, server.prompts>>,
                  list_available_capabilities(server.tools, server.resources, server.prompts))
    /\ UNCHANGED <<client, pools, files, server, inflight, control>>

NextCall ==
    \/ CallMethod("create_user_profile")
    \/ CallMethod("search_gigs")
    \/ CallMethod("review_code_file")
    \/ CallMethod("debug_code_file")
    \/ CallMethod("generate_proposal")
    \/ CallMethod("analyze_profile_fit")
    \/ CallMethod("negotiate_rate")
    \/ ListCapabilities

SpecCall == InitCall /\ [][NextCall]_vars

(***************************************************************************)
(* FreelanceMCPClient: the demo methods                                    *)
(***************************************************************************)
\* what the server answers in the run modes
ProfilePayload == Obj("profile_id" :> Str(<<"p1">>))
GigsPayload ==
    Obj("gigs" :> List(<<Obj(("id" :> Str(<<"g1">>)) @@ ("title" :> Str(<<"t1">>)))>>))
ScorePayload == Obj("overall_score" :> Num(60))
RatePayload == Obj("proposed_rate" :> Num(60))
RunResponses ==
    { CallToolResult(ProfilePayload, <<>>),
      CallToolResult(GigsPayload, <<>>),
      CallToolResult(ScorePayload, <<>>),
      CallToolResult(RatePayload, <<>>),
      CallToolResult(Obj("error" :> Str(<<"denied">>)), <<>>),
      CallToolResult(Obj(EmptyMap), <<>>),
      CallToolResult(PyNone, <<TextContent(<<"not", "json">>)>>),
      CallToolResult(PyNone, <<TextContent(<<"null">>)>>),
      CallToolResult(PyNone, <<TextContent(<<"[", "1", ",", "0", "]">>)>>) }
RunCallOutcomes == {Return(r) : r \in RunResponses} \cup {LibError, Interrupt}

\* the answers that the demo methods of FreelanceMCPClient tell apart
DemoCallOutcomes ==
    { Return(CallToolResult(ProfilePayload, <<>>)),
      Return(CallToolResult(PyNone, <<TextContent(<<"not", "json">>)>>)),
      LibError, Interrupt }

DemoNames ==
    <<"demo_gig_search", "demo_profile_creation", "demo_profile_analysis",
      "demo_proposal_generation", "demo_rate_negotiation", "demo_code_review",
      "demo_code_debug", "demo_profile_optimization", "demo_resources">>
DemoTools ==
    <<"search_gigs", "create_user_profile", "analyze_profile_fit",
      "generate_proposal", "negotiate_rate", "code_review", "code_debug",
      "create_user_profile", "read_resource">>

\* a try block whose `except Exception` reports: only a BaseException leaves
Guarded(c) == IF c.raised /\ ~IsException(c) THEN c ELSE NoExc

\* d.get(key) on a structured payload
PyGet(v, key) == IF key \in DOMAIN v.map THEN v.map[key] ELSE PyNone

\* what the file system does to the sample file of a demo
FsOutcomes == {"ok", "write_fails", "unlink_fails"}

\* demo_code_review / demo_code_debug: write the sample inside the try, call
\* the tool, and unlink the sample in the finally clause
demo_with_file(c, fs) ==
    IF fs = "write_fails" THEN NoExc
    ELSE IF fs = "unlink_fails" THEN Raise("OSError", <<"unlink">>)
    ELSE Guarded(c)

\* demo_profile_optimization: create_user_profile outside any try, then
\* optimize_profile inside one, called only for a truthy profile_id
demo_profile_optimization(c1, c2) ==
    LET profile_result == SessionCall("call_tool", c1)
    IN IF profile_result.raised THEN profile_result
       ELSE LET sc == profile_result.value.structuredContent
            IN IF sc # NoAttr /\ Truthy(sc) /\ Truthy(PyGet(sc, "profile_id"))
               THEN Guarded(SessionCall("call_tool", c2))
               ELSE NoExc

\* what read_resource returns: the contents of the resource
TextResourceContents(t) == [type |-> "resource_text", text |-> t]
ReadResourceResult(parts) == [contents |-> parts]

\* the first half of the try block of demo_resources, after the read: the
\* first content, if it is a TextContent, is parsed and printed with
\* trends_data.get(...), ', '.join(...), rates.items()
ShowTrends(trends) ==
    IF trends.contents = <<>> THEN NoExc
    ELSE LET content == trends.contents[1]
         IN IF ~IsTextContent(content) THEN NoExc
            ELSE LET trends_data == json_loads(content.text)
                 IN IF trends_data.raised THEN trends_data
                    ELSE IF trends_data.value.kind # "obj"
                         THEN Raise("AttributeError", <<"object has no attribute 'get'">>)
                    ELSE IF \/ PyGet(trends_data.value, "hot_skills").kind \notin {"none", "list"}
                            \/ PyGet(trends_data.value, "average_rates").kind \notin {"none", "obj"}
                         THEN Raise("TypeError", <<"trends">>)
                    ELSE NoExc

\* the second half: the first content is parsed and gigs_data[:2] printed
\* with gig['title'], gig['budget'], gig['skills'], gig['proposals']
ShowGigs(upwork_gigs) ==
    IF upwork_gigs.contents = <<>> THEN NoExc
    ELSE LET content == upwork_gigs.contents[1]
         IN IF ~IsTextContent(content) THEN NoExc
            ELSE LET gigs_data == json_loads(content.text)
                 IN IF gigs_data.raised THEN gigs_data
                    ELSE IF gigs_data.value.kind # "list"
                         THEN Raise("TypeError", <<"gigs_data[:2]">>)
                    ELSE IF \E i \in 1..Len(gigs_data.value.items) :
                               /\ i <= 2
                               /\ \/ gigs_data.value.items[i].kind # "obj"
                                  \/ ~({"title", "budget", "skills", "proposals"}
                                          \subseteq DOMAIN gigs_data.value.items[i].map)
                         THEN Raise("KeyError", <<"title">>)
                    ELSE NoExc

\* demo_resources without its try block
demo_resources_Unguarded(c1, c2) ==
    LET trends == SessionCall("read_resource", c1)
    IN IF trends.raised THEN trends
       ELSE IF ShowTrends(trends.value).raised THEN ShowTrends(trends.value)
       ELSE LET upwork_gigs == SessionCall("read_resource", c2)
            IN IF upwork_gigs.raised THEN upwork_gigs
               ELSE ShowGigs(upwork_gigs.value)

\* demo_resources: two read_resource calls, each followed by the decoding
\* of what it returned, in one try block
demo_resources(c1, c2) ==
    LET trends == SessionCall("read_resource", c1)
    IN IF trends.raised THEN Guarded(trends)
       ELSE IF ShowTrends(trends.value).raised THEN Guarded(ShowTrends(trends.value))
       ELSE LET upwork_gigs == SessionCall("read_resource", c2)
            IN IF upwork_gigs.raised THEN Guarded(upwork_gigs)
               ELSE Guarded(ShowGigs(upwork_gigs.value))

\* what demo i raises, given the outcomes of its requests
DemoResult(i, c1, c2, fs) ==
    CASE i \in 1..5 -> Guarded(SessionCall("call_tool", c1))
      [] i \in {6, 7} -> demo_with_file(SessionCall("call_tool", c1), fs)
      [] i = 8 -> demo_profile_optimization(c1, c2)
      [] i = 9 -> demo_resources(c1, c2)

SampleFile(i) == IF i = 6 THEN "sample_payment_form.js" ELSE "buggy_code.js"

\* the backup the code_debug tool leaves next to the file it was given
BackupFile == "buggy_code.js.backup.1"

\* the files that the finally clause of demo i removes
Cleaned(i) == IF i = 7 THEN {SampleFile(i), BackupFile} ELSE {SampleFile(i)}

\* demo_files with the clean-up as the last statements of the try block,
\* reached only when nothing was raised before
demo_files_CleanupInTry(i, c, fs) ==
    IF i \notin {6, 7} THEN files
    ELSE LET written == IF fs = "write_fails" THEN files ELSE files \cup {SampleFile(i)}
             called == IF i = 7 /\ fs = "backup" THEN written \cup {BackupFile} ELSE written
         IN IF fs \in {"unlink_fails", "write_fails"} \/ c.raised THEN called
            ELSE called \ Cleaned(i)

\* the files after demo i: demo_code_review and demo_code_debug write their
\* sample, call the tool (code_debug with backup: True) and, in the finally
\* clause, unlink the sample if it exists and every backup of it
demo_files(i, c, fs) ==
    IF i \notin {6, 7} THEN files
    ELSE LET written == IF fs = "write_fails" THEN files ELSE files \cup {SampleFile(i)}
             called == IF i = 7 /\ fs = "backup" THEN written \cup {BackupFile} ELSE written
         IN IF fs = "unlink_fails" THEN called
            ELSE called \ Cleaned(i)

\* Demo that drops the session when its request has raised
Demo_DropsSession(i, c1, c2, fs) ==
    /\ files' = demo_files(i, c1, fs)
    /\ last' = Op(DemoNames[i], DemoTools[i], c1, DemoResult(i, c1, c2, fs))
    /\ session' = IF c1.raised THEN 0 ELSE session
    /\ UNCHANGED <<read, write, client_context, pools, server, inflight>>

\* demo i as a step of a run mode: its effect on the files and on `last`
Demo(i, c1, c2, fs) ==
    /\ files' = demo_files(i, c1, fs)
    /\ last' = Op(DemoNames[i], DemoTools[i], c1, DemoResult(i, c1, c2, fs))
    /\ UNCHANGED <<client, pools, server, inflight>>

\* what a read_resource of demo_resources can end in
ReadOutcomes ==
    { Return(ReadResourceResult(<<>>)),
      Return(ReadResourceResult(<<TextResourceContents(<<"{", "}">>)>>)),
      Return(ReadResourceResult(<<TextContent(<<"{", "}">>)>>)),
      Return(ReadResourceResult(<<TextContent(<<"[", "]">>)>>)),
      Return(ReadResourceResult(<<TextContent(<<"[", "1", ",", "0", "]">>)>>)),
      Return(ReadResourceResult(<<TextContent(<<"not", "json">>)>>)),
      LibError, Interrupt }

\* the request outcomes and file-system outcomes demo i can meet
DemoCalls1(i) == IF i = 9 THEN ReadOutcomes ELSE DemoCallOutcomes
DemoCalls2(i) ==
    IF i = 8 THEN DemoCallOutcomes ELSE IF i = 9 THEN ReadOutcomes ELSE {NoExc}
DemoFs(i) ==
    IF i = 6 THEN FsOutcomes
    ELSE IF i = 7 THEN FsOutcomes \cup {"backup"}
    ELSE {"ok"}

(***************************************************************************)
(* FreelanceMCPClient.run_interactive_demo                                 *)
(***************************************************************************)
\* where the body of run_interactive_demo goes after a step that ended in r
\* (`except Exception` reports r; anything else is re-raised after finally)
RidAfter(r) ==
    /\ pc' = "rid_finally"
    /\ idx' = 0
    /\ pend' = IF IsException(r) THEN NoExc ELSE r

RidConnect ==
    /\ pc = "rid_connect"
    /\ \E o \in ConnectOutcomes :
          /\ connect(o)
          /\ last' = Op("connect", "", o.at, ConnectResult(o))
          /\ IF ConnectResult(o).raised
             THEN RidAfter(ConnectResult(o))
             ELSE pc' = "rid_demo" /\ idx' = 1 /\ UNCHANGED pend
    /\ UNCHANGED <<files, server, inflight, mode, nested, exc>>
    /\ attempts' = attempts + 1

RidDemo ==
    /\ pc = "rid_demo"
    /\ \E c1 \in DemoCalls1(idx), c2 \in DemoCalls2(idx), fs \in DemoFs(idx) :
          /\ Demo(idx, c1, c2, fs)
          /\ IF DemoResult(idx, c1, c2, fs).raised
             THEN RidAfter(DemoResult(idx, c1, c2, fs))
             ELSE IF idx < 9
                  THEN idx' = idx + 1 /\ UNCHANGED <<pc, pend>>
                  ELSE RidAfter(NoExc)
    /\ UNCHANGED <<mode, attempts, nested, exc>>

\* the finally clause, and the return to the caller: main, or the 'demo'
\* command of interactive_mode (break, or its two except clauses)
RidFinally ==
    /\ pc = "rid_finally"
    /\ \E o \in DisconnectOutcomes :
          LET r == DisconnectResult(o)
              res == IF r.raised THEN r ELSE pend
          IN /\ disconnect(o)
             /\ last' = Op("disconnect", "", o, r)
             /\ IF nested
                THEN /\ pc' = IF IsException(res) THEN "im_input" ELSE "im_disconnect"
                     /\ exc' = exc
                ELSE /\ pc' = "done"
                     /\ exc' = res
    /\ nested' = FALSE
    /\ pend' = NoExc
    /\ UNCHANGED <<files, server, inflight, mode, attempts, idx>>

(***************************************************************************)
(* FreelanceMCPClient.interactive_mode                                     *)
(***************************************************************************)
ImConnect ==
    /\ pc = "im_connect"
    /\ \E o \in ConnectOutcomes :
          /\ connect(o)
          /\ last' = Op("connect", "", o.at, ConnectResult(o))
          /\ IF ConnectResult(o).raised
             THEN pc' = "done" /\ exc' = ConnectResult(o)
             ELSE pc' = "im_input" /\ exc' = exc
    /\ UNCHANGED <<files, server, inflight, mode, idx, nested, pend>>
    /\ attempts' = attempts + 1

\* 'help' and unknown commands only print
ImPrint ==
    /\ pc = "im_input"
    /\ \E cmd \in {"help", "unknown"} : last' = Op("input", "", cmd, NoExc)
    /\ UNCHANGED <<client, pools, files, server, inflight, control>>

\* the nine commands that run one demo method
ImCommand ==
    /\ pc = "im_input"
    /\ \E i \in 1..9 :
       \E c1 \in DemoCalls1(i), c2 \in DemoCalls2(i), fs \in DemoFs(i) :
          /\ Demo(i, c1, c2, fs)
          /\ pc' = IF DemoResult(i, c1, c2, fs).raised /\ ~IsException(DemoResult(i, c1, c2, fs))
                   THEN "im_disconnect" ELSE "im_input"
    /\ UNCHANGED <<mode, attempts, idx, nested, pend, exc>>

\* 'demo': run_interactive_demo on the same client, then break
ImDemo ==
    /\ pc = "im_input"
    /\ attempts < MaxConnects
    /\ pc' = "rid_connect"
    /\ nested' = TRUE
    /\ last' = Op("input", "", "demo", NoExc)
    /\ UNCHANGED <<client, pools, files, server, inflight, mode, attempts, idx, pend, exc>>

\* 'quit', 'exit', 'q', and KeyboardInterrupt at the prompt: break
ImQuit ==
    /\ pc = "im_input"
    /\ pc' = "im_disconnect"
    /\ \E o \in {Return(Str(<<"quit">>)), Interrupt} : last' = Op("input", "", "quit", o)
    /\ UNCHANGED <<client, pools, files, server, inflight, mode, attempts, idx, nested, pend, exc>>

\* end of input: input() raises EOFError, `except Exception` reports it and
\* the loop goes on
ImEndOfInput ==
    /\ pc = "im_input"
    /\ last' = Op("input", "", "eof", Raise("EOFError", <<"EOF when reading a line">>))
    /\ UNCHANGED <<client, pools, files, server, inflight, control>>

ImDisconnect ==
    /\ pc = "im_disconnect"
    /\ \E o \in DisconnectOutcomes :
          /\ disconnect(o)
          /\ last' = Op("disconnect", "", o, DisconnectResult(o))
          /\ exc' = DisconnectResult(o)
    /\ pc' = "done"
    /\ UNCHANGED <<files, server, inflight, mode, attempts, idx, nested, pend>>

(***************************************************************************)
(* freelance_client2.main: the two workflows, one FreelanceClient each     *)
(***************************************************************************)
\* `key in v`
PyContains(v, key) ==
    CASE v.kind = "obj" -> Return(Bool(key \in DOMAIN v.map))
      [] v.kind = "list" -> Return(Bool(\E i \in 1..Len(v.items) : v.items[i] = Str(<<key>>)))
      [] v.kind = "str" -> Return(Bool(\E i \in 1..Len(v.s) : v.s[i] = key))
      [] OTHER -> Raise("TypeError", <<"argument is not iterable">>)

\* print_dict_pretty(data) starts with data.items()
print_dict_pretty(data) ==
    IF data.kind = "obj" THEN NoExc
    ELSE Raise("AttributeError", <<"object has no attribute 'items'">>)

\* `if "error" in result: print(...) else: print_dict_pretty(result)` on what
\* a method returned or raised
Show(r) ==
    IF r.raised THEN r
    ELSE LET t == PyContains(r.value, "error")
         IN IF t.raised THEN t
            ELSE IF t.value.b THEN NoExc
            ELSE print_dict_pretty(r.value)

\* print_dict_pretty(result) on what a method returned or raised
Pretty(r) == IF r.raised THEN r ELSE print_dict_pretty(r.value)

\* search_result.get("gigs") and len(search_result["gigs"]) > 0, then
\* first_gig = gigs[0], first_gig["id"], first_gig['title']
HasGigs(v) ==
    LET g == PyGet(v, "gigs")
    IN IF ~Truthy(g) THEN Return(Bool(FALSE))
       ELSE IF g.kind = "list" /\ g.items[1].kind = "obj"
               /\ {"id", "title"} \subseteq DOMAIN g.items[1].map
            THEN Return(Bool(TRUE))
       ELSE Raise("TypeError", <<"gigs">>)

\* fit_analysis.get("overall_score", 0) > 50
GoodFit(v) ==
    LET sc == IF "overall_score" \in DOMAIN v.map THEN v.map["overall_score"] ELSE Num(0)
    IN IF sc.kind = "num" THEN Return(Bool(sc.n > 50))
       ELSE IF sc.kind = "bool" THEN Return(Bool(FALSE))
       ELSE Raise("TypeError", <<"'>' not supported">>)

\* proposal_result.get("proposed_rate"), then proposed_rate * 1.2
HasRate(v) ==
    LET pr == PyGet(v, "proposed_rate")
    IN IF ~Truthy(pr) THEN Return(Bool(FALSE))
       ELSE IF pr.kind \in {"num", "bool"} THEN Return(Bool(TRUE))
       ELSE Raise("TypeError", <<"can't multiply">>)

ReviewFile == "sample_code_demo.py"

\* `async with FreelanceClient() as client`: an exception of __aenter__
\* leaves the workflow without __aexit__
WfEnter(at, next) ==
    /\ pc = at
    /\ \E o \in AEnterOutcomes :
          /\ aenter(o)
          /\ last' = Op("__aenter__", "", o.at, AEnterResult(o))
          /\ IF AEnterResult(o).raised
             THEN pc' = "done" /\ exc' = AEnterResult(o)
             ELSE pc' = next /\ exc' = exc
    /\ UNCHANGED <<files, server, inflight, mode, attempts, idx, nested, pend>>

\* a statement of the body ended in r: go on, or leave through __aexit__
WfAfter(r, next, exit) ==
    IF r.raised THEN pc' = exit /\ pend' = r
    ELSE pc' = next /\ pend' = pend

\* the end of the `async with` block
WfExit(at, next) ==
    /\ pc = at
    /\ \E o \in AExitOutcomes :
          LET r == AExitResult(o)
              res == IF r.raised THEN r ELSE pend
          IN /\ aexit(o)
             /\ last' = Op("__aexit__", "", o, r)
             /\ IF res.raised
                THEN pc' = "done" /\ exc' = res
                ELSE pc' = next /\ exc' = exc
    /\ pend' = NoExc
    /\ UNCHANGED <<files, server, inflight, mode, attempts, idx, nested>>

\* a tool-invoking method called by a workflow, and what is done with its result
WfCall(at, m, after(_), next, exit) ==
    /\ pc = at
    /\ \E c \in RunCallOutcomes :
          /\ last' = Op(m, ToolOf(m), c, Method(m, c))
          /\ WfAfter(after(Method(m, c)), next, exit)
    /\ UNCHANGED <<client, pools, files, server, inflight, mode, attempts, idx, nested, exc>>

RwEnter == WfEnter("rw_enter", "rw_caps")

RwCaps ==
    /\ pc = "rw_caps"
    /\ \E lt \in ListingOutcomes, lr \in ListingOutcomes, lp \in ListingOutcomes :
          /\ last' = Op("list_available_capabilities", "", <<lt, lr, lp>>,
                        list_available_capabilities(lt, lr, lp))
          /\ WfAfter(list_available_capabilities(lt, lr, lp), "rw_file", "rw_exit")
    /\ UNCHANGED <<client, pools, files, server, inflight, mode, attempts, idx, nested, exc>>

\* with open(sample_file_path, "w") as f: f.write(sample_code)
RwFile ==
    /\ pc = "rw_file"
    /\ \E r \in {NoExc, Raise("OSError", <<"open">>)} :
          /\ files' = IF r.raised THEN files ELSE files \cup {ReviewFile}
          /\ last' = Op("open", "", ReviewFile, r)
          /\ WfAfter(r, "rw_review", "rw_exit")
    /\ UNCHANGED <<client, pools, server, inflight, mode, attempts, idx, nested, exc>>

RwReview == WfCall("rw_review", "review_code_file", Show, "rw_debug1", "rw_exit")
RwDebug1 == WfCall("rw_debug1", "debug_code_file", Show, "rw_debug2", "rw_exit")
RwDebug2 == WfCall("rw_debug2", "debug_code_file", Show, "rw_remove", "rw_exit")

\* try: os.remove(sample_file_path) except: pass
RwRemove ==
    /\ pc = "rw_remove"
    /\ \E r \in {NoExc, Raise("OSError", <<"remove">>)} :
          /\ files' = IF r.raised THEN files ELSE files \ {ReviewFile}
          /\ last' = Op("os.remove", "", ReviewFile, r)
    /\ pc' = "rw_exit"
    /\ UNCHANGED <<client, pools, server, inflight, mode, attempts, idx, nested, pend, exc>>

RwExit == WfExit("rw_exit", "fw_new")

\* FreelanceClient() of demonstrate_freelance_workflow: a new instance
FwNew ==
    /\ pc = "fw_new"
    /\ session' = 0
    /\ read' = 0
    /\ write' = 0
    /\ client_context' = 0
    /\ last' = Op("__init__", "", "", NoExc)
    /\ pc' = "fw_enter"
    /\ UNCHANGED <<pools, files, server, inflight, mode, attempts, idx, nested, pend, exc>>

FwEnter == WfEnter("fw_enter", "fw_profile")

FwProfile == WfCall("fw_profile", "create_user_profile", Pretty, "fw_search", "fw_exit")

\* a method result is printed, then a condition on it decides whether the
\* workflow goes on
Gate(r, test(_)) ==
    IF Pretty(r).raised THEN Pretty(r)
    ELSE IF test(r.value).raised THEN test(r.value)
    ELSE NoExc

Passes(r, test(_)) == ~Gate(r, test).raised /\ test(r.value).value.b

WfGate(at, m, test(_), next, exit) ==
    /\ pc = at
    /\ \E c \in RunCallOutcomes :
          /\ last' = Op(m, ToolOf(m), c, Method(m, c))
          /\ IF Passes(Method(m, c), test)
             THEN pc' = next /\ pend' = pend
             ELSE pc' = exit /\ pend' = Gate(Method(m, c), test)
    /\ UNCHANGED <<client, pools, files, server, inflight, mode, attempts, idx, nested, exc>>

FwSearch == WfGate("fw_search", "search_gigs", HasGigs, "fw_fit", "fw_exit")
FwFit == WfGate("fw_fit", "analyze_profile_fit", GoodFit, "fw_proposal", "fw_exit")
FwProposal == WfGate("fw_proposal", "generate_proposal", HasRate, "fw_negotiate", "fw_exit")
FwNegotiate == WfCall("fw_negotiate", "negotiate_rate", Pretty, "fw_exit", "fw_exit")
FwExit == WfExit("fw_exit", "done")

(***************************************************************************)
(* Spec: one run of an entry point                                         *)
(***************************************************************************)
Modes == {"demo", "interactive", "client2"}
StartOf(m) ==
    CASE m = "demo" -> "rid_connect"
      [] m = "interactive" -> "im_connect"
      [] m = "client2" -> "rw_enter"

\* FreelanceMCPClient() / FreelanceClient(): session is None, the other
\* attributes do not exist yet
Init ==
    /\ session = 0
    /\ read = 0
    /\ write = 0
    /\ client_context = 0
    /\ sessions = <<>>
    /\ transports = <<>>
    /\ files = {}
    /\ last = Op("__init__", "", "", NoExc)
    /\ server = NoStub
    /\ inflight = <<>>
    /\ mode \in Modes
    /\ pc = StartOf(mode)
    /\ idx = 0
    /\ attempts = 0
    /\ nested = FALSE
    /\ pend = NoExc
    /\ exc = NoExc

Next ==
    \/ RidConnect
    \/ RidDemo
    \/ RidFinally
    \/ ImConnect
    \/ ImPrint
    \/ ImCommand
    \/ ImDemo
    \/ ImQuit
    \/ ImEndOfInput
    \/ ImDisconnect
    \/ RwEnter
    \/ RwCaps
    \/ RwFile
    \/ RwReview
    \/ RwDebug1
    \/ RwDebug2
    \/ RwRemove
    \/ RwExit
    \/ FwNew
    \/ FwEnter
    \/ FwProfile
    \/ FwSearch
    \/ FwFit
    \/ FwProposal
    \/ FwNegotiate
    \/ FwExit

Spec == Init /\ [][Next]_vars

(***************************************************************************)
(* SpecAwait: the requests of one run on its session, each `await` taken   *)
(* as two steps, the sending of the request and the end of the wait        *)
(***************************************************************************)
\* a place of the source that awaits a request on self.session; guarded: it
\* sits in a try block whose `except Exception` reports the failure
Site(request, tool, guarded) == [request |-> request, tool |-> tool, guarded |-> guarded]

\* run_interactive_demo: connect() and the nine demo methods
RidSites ==
    << Site("initialize", "", FALSE),
       Site("list_tools", "", FALSE),
       Site("list_resources", "", FALSE),
       Site("list_resource_templates", "", TRUE),
       Site("call_tool", "search_gigs", TRUE),
       Site("call_tool", "create_user_profile", TRUE),
       Site("call_tool", "analyze_profile_fit", TRUE),
       Site("call_tool", "generate_proposal", TRUE),
       Site("call_tool", "negotiate_rate", TRUE),
       Site("call_tool", "code_review", TRUE),
       Site("call_tool", "code_debug", TRUE),
       Site("call_tool", "create_user_profile", FALSE),
       Site("call_tool", "optimize_profile", TRUE),
       Site("read_resource", "freelance://market-trends", TRUE),
       Site("read_resource", "freelance://gigs/upwork", TRUE) >>

\* demonstrate_code_review_workflow: __aenter__, the capabilities, one
\* review and two debugs
RwSites ==
    << Site("initialize", "", FALSE),
       Site("list_tools", "", FALSE),
       Site("list_resources", "", FALSE),
       Site("list_prompts", "", FALSE),
       Site("call_tool", "code_review", TRUE),
       Site("call_tool", "code_debug", TRUE),
       Site("call_tool", "code_debug", TRUE) >>

\* demonstrate_freelance_workflow: __aenter__ and the five methods
FwSites ==
    << Site("initialize", "", FALSE),
       Site("call_tool", "create_user_profile", FALSE),
       Site("call_tool", "search_gigs", FALSE),
       Site("call_tool", "analyze_profile_fit", TRUE),
       Site("call_tool", "generate_proposal", TRUE),
       Site("call_tool", "negotiate_rate", TRUE) >>

Runs == {"run_interactive_demo", "code_review_workflow", "freelance_workflow"}
Sites(run) ==
    CASE run = "run_interactive_demo" -> RidSites
      [] run = "code_review_workflow" -> RwSites
      [] run = "freelance_workflow" -> FwSites

\* how the wait for a request can end: a response, an exception of the
\* session, a KeyboardInterrupt or cancellation delivered to the waiting
\* task; or not at all, when the server never answers: no call of either
\* client passes a timeout and nothing else bounds the wait
Fates == {"response", "error", "interrupt", "silence"}

OutcomeOf(fate) ==
    CASE fate = "response" -> NoExc
      [] fate = "error" -> LibError
      [] fate = "interrupt" -> Interrupt

\* the sites the run can go on with once request i has ended; 0: the run
\* sends no further request
Resume(run, i, fate) ==
    LET following == IF i < Len(Sites(run)) THEN i + 1 ELSE 0
    IN CASE fate = "interrupt" -> {0}
         [] fate = "error" ->
               IF ~Sites(run)[i].guarded THEN {0}
               ELSE IF run = "freelance_workflow" THEN {0}
               ELSE IF run = "run_interactive_demo" /\ i = 14 THEN {0}
               ELSE {following}
         [] fate = "response" ->
               IF run = "run_interactive_demo"
               THEN IF i = 12 THEN {13, 14}
                    ELSE IF i = 14 THEN {15, 0}
                    ELSE {following}
               ELSE IF Sites(run)[i].request = "call_tool" THEN {following, 0}
               ELSE {following}

\* the transport is started and the session entered: the next await of
\* connect() / __aenter__ is initialize()
InitAwait ==
    /\ mode \in Runs
    /\ transports = <<NewTransport("entered")>>
    /\ sessions = <<NewSession("entered", FALSE, 1)>>
    /\ session = 1
    /\ read = 1
    /\ write = 1
    /\ client_context = IF mode = "run_interactive_demo" THEN 0 ELSE 1
    /\ files = {}
    /\ last = Op("__aenter__", "", "", NoExc)
    /\ server = NoStub
    /\ inflight = <<>>
    /\ pc = "running"
    /\ idx = 1
    /\ attempts = 0
    /\ nested = FALSE
    /\ pend = NoExc
    /\ exc = NoExc

\* `asyncio.create_task(self.session.<request>(...))` in place of the
\* await: the request is sent and the run goes on to its next site
AwaitSend_Detached ==
    /\ pc = "running"
    /\ idx < Len(Sites(mode))
    /\ \E fate \in Fates :
          inflight' = Append(inflight, [request |-> Sites(mode)[idx].request,
                                        tool |-> Sites(mode)[idx].tool,
                                        fate |-> fate])
    /\ idx' = idx + 1
    /\ last' = Op(Sites(mode)[idx].request, Sites(mode)[idx].tool, "sent", NoExc)
    /\ UNCHANGED <<client, pools, files, server, mode, pc, attempts, nested, pend, exc>>

\* `await self.session.<request>(...)`, first half: the request is sent and
\* the run is suspended until the wait ends
AwaitSend ==
    /\ pc = "running"
    /\ \E fate \in Fates :
          inflight' = Append(inflight, [request |-> Sites(mode)[idx].request,
                                        tool |-> Sites(mode)[idx].tool,
                                        fate |-> fate])
    /\ pc' = "suspended"
    /\ last' = Op(Sites(mode)[idx].request, Sites(mode)[idx].tool, "sent", NoExc)
    /\ UNCHANGED <<client, pools, files, server, mode, idx, attempts, nested, pend, exc>>

\* second half: the wait ends with a response or an exception and the run
\* is resumed; a request the server never answers has no such step
AwaitResume ==
    /\ pc = "suspended"
    /\ inflight # <<>>
    /\ Head(inflight).fate # "silence"
    /\ inflight' = Tail(inflight)
    /\ last' = Op(Head(inflight).request, Head(inflight).tool,
                  Head(inflight).fate, OutcomeOf(Head(inflight).fate))
    /\ sessions' = IF Head(inflight).request = "initialize" /\ Head(inflight).fate = "response"
                   THEN [sessions EXCEPT ![session].initialized = TRUE]
                   ELSE sessions
    /\ \E n \in Resume(mode, idx, Head(inflight).fate) :
          IF n = 0
          THEN pc' = "done" /\ idx' = idx
          ELSE pc' = "running" /\ idx' = n
    /\ exc' = IF Head(inflight).fate = "interrupt"
                  \/ (Head(inflight).fate = "error" /\ ~Sites(mode)[idx].guarded)
              THEN OutcomeOf(Head(inflight).fate) ELSE exc
    /\ UNCHANGED <<client, transports, files, server, mode, attempts, nested, pend>>

NextAwait ==
    \/ AwaitSend
    \/ AwaitResume

SpecAwait == InitAwait /\ [][NextAwait]_vars

\* the event loop runs a task that is ready, and delivers a response that
\* has arrived
FairAwait == SpecAwait /\ WF_vars(AwaitSend) /\ WF_vars(AwaitResume)

(***************************************************************************)
(* The argument mappings the methods of FreelanceClient build from their   *)
(* parameters and hand to call_tool                                        *)
(***************************************************************************)
\* `if x: args[key] = x`
WhenTruthy(key, v) == IF Truthy(v) THEN key :> v ELSE EmptyMap

\* args = {"skills": skills}; if max_budget: ...; if platforms: ...
search_gigs_args(skills, max_budget, platforms) ==
    ("skills" :> skills)
    @@ WhenTruthy("max_budget", max_budget)
    @@ WhenTruthy("platforms", platforms)

\* args = {current_rate, target_rate, project_complexity: "medium"};
\* if justification_points: ...
negotiate_rate_args(current_rate, target_rate, justification_points) ==
    ("current_rate" :> current_rate)
    @@ ("target_rate" :> target_rate)
    @@ ("project_complexity" :> Str(<<"medium">>))
    @@ WhenTruthy("justification_points", justification_points)

\* the parameters a caller passes
Words(ws) == List([i \in 1..Len(ws) |-> Str(<<ws[i]>>)])
SkillLists == {Words(<<>>), Words(<<"Python">>), Words(<<"Python", "React">>)}
Budgets == {PyNone} \cup {Num(n) : n \in 0..MaxBudget}
PlatformLists ==
    {PyNone, Words(<<>>), Words(<<"upwork">>), Words(<<"upwork", "freelancer">>)}
Rates == {Num(n) : n \in 1..MaxRate}
PointLists ==
    {PyNone, Words(<<>>), Words(<<"experience">>), Words(<<"experience", "results">>)}

\* a connected client whose methods are called with parameters of the
\* caller's choice; the step records the mapping handed to call_tool
InitArgs ==
    /\ server = NoStub
    /\ inflight = <<>>
    /\ transports = <<NewTransport("entered")>>
    /\ sessions = <<NewSession("entered", TRUE, 1)>>
    /\ session = 1
    /\ read = 1
    /\ write = 1
    /\ client_context = 1
    /\ files = {}
    /\ last = Op("__aenter__", "", NoExc, NoExc)
    /\ mode = "args"
    /\ pc = "body"
    /\ idx = 0
    /\ attempts = 0
    /\ nested = FALSE
    /\ pend = NoExc
    /\ exc = NoExc

SearchGigsArgs ==
    /\ mode = "args"
    /\ \E skills \in SkillLists, max_budget \in Budgets, platforms \in PlatformLists :
          last' = Op("search_gigs", "search_gigs",
                     [skills |-> skills, max_budget |-> max_budget, platforms |-> platforms],
                     search_gigs_args(skills, max_budget, platforms))
    /\ UNCHANGED <<client, pools, files, server, inflight, control>>

NegotiateRateArgs ==
    /\ mode = "args"
    /\ \E current_rate \in Rates, target_rate \in Rates, justification_points \in PointLists :
          last' = Op("negotiate_rate", "negotiate_rate",
                     [current_rate |-> current_rate, target_rate |-> target_rate,
                      justification_points |-> justification_points],
                     negotiate_rate_args(current_rate, target_rate, justification_points))
    /\ UNCHANGED <<client, pools, files, server, inflight, control>>

NextArgs == SearchGigsArgs \/ NegotiateRateArgs

SpecArgs == InitArgs /\ [][NextArgs]_vars

(***************************************************************************)
(* What the claims are stated with: the meaning of a JSON text, obtained   *)
(* by writing values out rather than by parsing texts                      *)
(***************************************************************************)
Scalars ==
    {Num(0), Num(1), Num(60), Str(<<"a">>), Str(<<"error">>), Str(<<"response">>),
     Str(<<"gigs">>), PyNone, Bool(TRUE), Bool(FALSE)}
Keys == {"a", "error", "response", "gigs"}
Nest(S) ==
    S \cup {Obj(EmptyMap), List(<<>>)}
      \cup {Obj(k :> v) : k \in Keys, v \in S}
      \cup {List(<<v>>) : v \in S}
JsonValues == Nest(Nest(Scalars))

QuoteTok(str) ==
    CASE str = "a" -> "\"a\""
      [] str = "error" -> "\"error\""
      [] str = "response" -> "\"response\""
      [] str = "gigs" -> "\"gigs\""
NumTok(n) == CASE n = 0 -> "0" [] n = 1 -> "1" [] n = 60 -> "60"

RECURSIVE JsonText(_)
\* the text of a value with at most one member or element
JsonText(v) ==
    CASE v.kind = "num" -> <<NumTok(v.n)>>
      [] v.kind = "str" -> <<QuoteTok(v.s[1])>>
      [] v.kind = "none" -> <<"null">>
      [] v.kind = "bool" -> IF v.b THEN <<"true">> ELSE <<"false">>
      [] v.kind = "list" ->
            IF v.items = <<>> THEN <<"[", "]">>
            ELSE <<"[">> \o JsonText(v.items[1]) \o <<"]">>
      [] v.kind = "obj" ->
            IF DOMAIN v.map = {} THEN <<"{", "}">>
            ELSE LET k == CHOOSE x \in DOMAIN v.map : TRUE
                 IN <<"{", QuoteTok(k), ":">> \o JsonText(v.map[k]) \o <<"}">>

ValidTexts == {JsonText(v) : v \in JsonValues}
ValueOfText == [t \in ValidTexts |-> CHOOSE v \in JsonValues : JsonText(v) = t]

Invalid == [kind |-> "invalid"]

\* the sample texts that have several members or elements, read by hand
SampleMeaning ==
    (<<"[", "1", ",", "0", "]">> :> List(<<Num(1), Num(0)>>))
    @@ (<<"{", "\"a\"", ":", "1", ",", "\"gigs\"", ":", "[", "]", "}">>
          :> Obj(("a" :> Num(1)) @@ ("gigs" :> List(<<>>))))
    @@ (<<"{", "\"a\"", ":", "1", ",", "\"a\"", ":", "0", "}">> :> Obj("a" :> Num(0)))

\* the Python value a text stands for, or Invalid
Meaning(t) ==
    IF t \in DOMAIN SampleMeaning THEN SampleMeaning[t]
    ELSE IF t \in ValidTexts THEN ValueOfText[t]
    ELSE Invalid

NoStructured(r) == r.structuredContent \in {NoAttr, PyNone}
TextIndexes(r) == {i \in 1..Len(r.content) : r.content[i].type = "text"}
FirstTextOf(r) == r.content[CHOOSE i \in TextIndexes(r) : \A j \in TextIndexes(r) : i <= j].text

\* a tool-invoking method has returned or raised on a response of the server
Answered == last.method \in ToolMethods /\ ~last.arg.raised
ErrorResult(m) == Return(Obj("error" :> Str(m)))
TextResult(t) == Return(Obj("response" :> Str(t)))
Operations ==
    {"create user profile", "search gigs", "review code", "debug code",
     "generate proposal", "analyze profile fit", "negotiate rate"}

(***************************************************************************)
(* Claims                                                                  *)
(***************************************************************************)
\* a transport that was opened has been closed: the stdio_client context was
\* exited, or both of its streams were closed
Released(t) == t.state = "exited" \/ (t.wclosed > 0 /\ t.rclosed > 0)

\* C1: no run mode ends, normally or by an exception, with a session that
\* was entered and never exited
C1_SessionsClosedAtEnd ==
    (pc = "done" /\ (exc.raised => IsException(exc))) =>
        \A i \in 1..Len(sessions) : sessions[i].state # "entered"

\* C2: once disconnect() / __aexit__ has returned or raised, with only the
\* session close allowed to fail, the transport the client holds is closed
C2_TransportClosedAfterDisconnect ==
    /\ (last.method = "disconnect" /\ last.arg \in {"none", "session"} /\ write # 0) =>
          (transports[write].wclosed > 0 /\ transports[read].rclosed > 0)
    /\ (last.method = "__aexit__" /\ last.arg \in {"none", "session"}) =>
          transports[client_context].state = "exited"

\* C3: a disconnect() whose closes all succeed never raises, whatever the
\* connect before it did, and no session or transport is closed twice
C3_DisconnectSafe ==
    /\ (last.method = "disconnect" /\ last.arg = "none") => ~last.out.raised
    /\ \A i \in 1..Len(sessions) : sessions[i].exits <= 1
    /\ \A t \in 1..Len(transports) :
          transports[t].wclosed <= 1 /\ transports[t].rclosed <= 1

\* C4: when connect() / __aenter__ fails after the transport was opened and
\* the failure ends the run, the transport has been released
C4_FailedConnectReleases ==
    (pc = "done" /\ last.method \in {"connect", "__aenter__"} /\ IsException(last.out)) =>
        \A t \in 1..Len(transports) :
            transports[t].state = "entered" => Released(transports[t])

\* C5: when the session call of a tool-invoking method raises an exception,
\* the method returns {"error": "Failed to <operation>: <message>"} and
\* raises nothing
C5_CallFaultIsWrapped ==
    (last.method \in ToolMethods /\ IsException(last.arg)) =>
        \E op \in Operations :
            last.out = ErrorResult(<<"Failed to ", op, ": ">> \o last.arg.msg)

\* C6: a response that carries a structured payload is returned as that
\* payload, whatever its content parts are
C6_StructuredVerbatim ==
    (Answered /\ last.arg.value.structuredContent.kind = "obj") =>
        last.out = Return(last.arg.value.structuredContent)

\* C7: with no structured payload, a first text part that is a JSON object
\* is returned as the mapping the text stands for
C7_ParsedObject ==
    (/\ Answered
     /\ NoStructured(last.arg.value)
     /\ TextIndexes(last.arg.value) # {}
     /\ Meaning(FirstTextOf(last.arg.value)).kind = "obj") =>
        last.out = Return(Meaning(FirstTextOf(last.arg.value)))

C7_Witness ==
    /\ last.method = "search_gigs"
    /\ last.arg = Return(CallToolResult(PyNone, <<TextContent(<<"{", "\"a\"", ":", "1", "}">>)>>))
    /\ last.out = Return(Obj("a" :> Num(1)))

\* C8: with no structured payload, a first text part that is not JSON is
\* returned as {"response": text} with the text unchanged, never as an
\* error result and never as a raised exception
C8_RawTextFallback ==
    (/\ Answered
     /\ NoStructured(last.arg.value)
     /\ TextIndexes(last.arg.value) # {}
     /\ Meaning(FirstTextOf(last.arg.value)) = Invalid) =>
        last.out = TextResult(FirstTextOf(last.arg.value))

C8_Witness ==
    /\ last.method = "debug_code_file"
    /\ last.arg = Return(CallToolResult(NoAttr, <<ImageContent, TextContent(<<"not", "json">>)>>))
    /\ last.out = TextResult(<<"not", "json">>)

\* C9: with no structured payload and no text part the result is
\* {"error": "No valid response received"}
C9_NoValidResponse ==
    (Answered /\ NoStructured(last.arg.value) /\ TextIndexes(last.arg.value) = {}) =>
        last.out = ErrorResult(<<"No valid response received">>)

C9_Witness ==
    /\ last.method = "generate_proposal"
    /\ last.arg = Return(CallToolResult(PyNone, <<ImageContent>>))
    /\ last.out = ErrorResult(<<"No valid response received">>)

\* C10: when only the prompt listing fails, list_available_capabilities
\* returns the listed tools and resources with an empty prompts list
C10_PromptsBestEffort ==
    (/\ last.method = "list_available_capabilities"
     /\ ~last.arg[1].raised
     /\ ~last.arg[2].raised
     /\ IsException(last.arg[3])) =>
        last.out = Return(Obj(("tools" :> Names(last.arg[1].value))
                              @@ ("resources" :> Names(last.arg[2].value))
                              @@ ("prompts" :> List(<<>>))))

\* C11: when the listing of the tools or of the resources fails,
\* list_available_capabilities raises that failure and returns no
\* capabilities mapping, neither a partial nor an empty one
C11_ListingFailureSurfaces ==
    (/\ last.method = "list_available_capabilities"
     /\ (last.arg[1].raised \/ last.arg[2].raised)) =>
        last.out = IF last.arg[1].raised THEN last.arg[1] ELSE last.arg[2]

C11_Witness ==
    /\ last.method = "list_available_capabilities"
    /\ last.arg[1] = Return(<<"x", "y">>)
    /\ last.arg[2] = LibError
    /\ last.out = LibError

\* the operations that send requests on self.session
RequestingDemos == {DemoNames[i] : i \in (1..9) \ {6, 7}}
Requesting == RequestingDemos \cup ToolMethods

\* self.session is a session that was opened and has not been closed
SessionConnected == session # 0 /\ sessions[session].state = "entered"

\* C12: a request is answered by the server only when it was sent through a
\* session that is open at that time; on a closed session the operation
\* fails without a request
C12_RequestsOnlyWhenConnected ==
    (last.method \in Requesting /\ ~last.arg.raised) => SessionConnected

C14_OneOpenSession ==
    /\ Cardinality({i \in 1..Len(sessions) : sessions[i].state = "entered"}) <= 1
    /\ mode \in {"demo", "interactive"} =>
          Cardinality({t \in 1..Len(transports) :
                          transports[t].state = "entered" /\ ~Released(transports[t])}) <= 1

\* the variant a response stands for: a structured payload or a JSON text
\* is Structured, any other text is Text, no payload and no text is Error
VariantOf(r) ==
    IF r.structuredContent.kind = "obj" THEN "Structured"
    ELSE IF TextIndexes(r) = {} THEN "Error"
    ELSE IF Meaning(FirstTextOf(r)) = Invalid THEN "Text"
    ELSE "Structured"

\* the variant the caller takes a returned value for, with the test the
\* workflows use ("error" in result) and its counterpart for "response"
SeenAs(v) ==
    IF v.kind # "obj" THEN "None"
    ELSE IF "error" \in DOMAIN v.map THEN "Error"
    ELSE IF "response" \in DOMAIN v.map THEN "Text"
    ELSE "Structured"

\* C15: what a tool-invoking method returns for a response is a mapping of
\* exactly one variant, and the caller takes it for the variant the
\* response stands for
C15_ExactlyOneVariant ==
    (Answered /\ last.arg.value.structuredContent # Obj(EmptyMap) /\ ~last.out.raised) =>
        /\ last.out.value.kind = "obj"
        /\ SeenAs(last.out.value) = VariantOf(last.arg.value)

\* C16: a read_resource that raises an exception, or whose first content
\* cannot be decoded, is reported inside demo_resources: the method
\* returns and raises nothing
C16_ReadFailureIsReported ==
    (/\ last.method = "demo_resources"
     /\ \/ IsException(last.arg)
        \/ /\ ~last.arg.raised
           /\ last.arg.value.contents # <<>>
           /\ IsTextContent(last.arg.value.contents[1])
           /\ Meaning(last.arg.value.contents[1].text) = Invalid) =>
        last.out = NoExc

C16_Witness ==
    /\ last.method = "demo_resources"
    /\ last.arg = Return(ReadResourceResult(<<TextContent(<<"not", "json">>)>>))
    /\ last.out = NoExc
    /\ pc = "rid_finally"

\* C17: at most one request is outstanding on the session at any time
C17_OneOutstandingRequest == Len(inflight) <= 1

C17_Witness ==
    /\ Len(inflight) = 1
    /\ inflight[1].tool = "negotiate_rate"
    /\ mode = "freelance_workflow"
    /\ pc = "suspended"

\* C19: every tool call that was sent ends, with a response or with an
\* error, also when the server never answers it
C19_EveryCallEnds ==
    (inflight # <<>> /\ Head(inflight).request = "call_tool") ~> (inflight = <<>>)

\* a step taken where connect() / __aenter__ is called
ConnectsOnce ==
    (pc \in {"rid_connect", "im_connect", "rw_enter", "fw_enter"}) =>
        (/\ Len(transports') <= Len(transports) + 1
         /\ Len(sessions') <= Len(sessions) + 1
         /\ (last'.arg \in {"spawn", "enter", "initialize"}) =>
               (/\ last'.out.raised
                /\ pc' \notin {"rid_demo", "im_input", "rw_caps", "fw_profile"}))

\* C18: one call of connect() / __aenter__ starts at most one transport and
\* opens at most one session, on which initialize() is sent once, and a call
\* that fails at the start of the transport, at the opening of the session
\* or at the handshake raises that failure
C18_SingleAttempt == [][ConnectsOnce]_vars

C18_Witness ==
    /\ last.method = "connect"
    /\ last.arg = "initialize"
    /\ last.out = LibError
    /\ attempts = 1
    /\ Len(transports) = 1
    /\ Len(sessions) = 1
    /\ pc = "rid_finally"

\* C20: in run_interactive_demo a demo method whose tool call or resource
\* read raises an exception reports it and returns, and the run reaches its
\* finally clause only after demo_resources, the last of the nine demos
C20_DemoFaultsAreReported ==
    /\ (/\ mode = "demo"
        /\ \E i \in 1..9 : last.method = DemoNames[i]
        /\ IsException(last.arg)
        /\ files = {}) =>
          ~last.out.raised
    /\ (/\ mode = "demo"
        /\ pc = "rid_finally"
        /\ \E i \in 1..9 : last.method = DemoNames[i]
        /\ ~pend.raised
        /\ files = {}) =>
          last.method = "demo_resources"

\* what the content parts of a response stand for when its first text part
\* alone is read
ContentResult(r) ==
    IF TextIndexes(r) = {} THEN ErrorResult(<<"No valid response received">>)
    ELSE IF Meaning(FirstTextOf(r)) = Invalid THEN TextResult(FirstTextOf(r))
    ELSE Return(Meaning(FirstTextOf(r)))

\* C21: with no structured payload the result is the one the first text
\* part stands for, whatever parts come before it or after it and whether or
\* not it is JSON
C21_FirstTextDecides ==
    (Answered /\ NoStructured(last.arg.value) /\ TextIndexes(last.arg.value) # {}) =>
        last.out = ContentResult(last.arg.value)

C21_Witness ==
    /\ last.method = "analyze_profile_fit"
    /\ last.arg = Return(CallToolResult(PyNone,
                      <<TextContent(<<"not", "json">>),
                        TextContent(<<"{", "\"a\"", ":", "1", "}">>)>>))
    /\ last.out = TextResult(<<"not", "json">>)

\* C22: when the input of interactive_mode is exhausted the command loop is
\* left, as it is on quit and on a keyboard interrupt
C22_InputEndLeavesLoop ==
    (last.method = "input" /\ last.arg \in {"eof", "quit"}) =>
        pc \in {"im_disconnect", "done"}

\* an Error result of a tool-invoking method
IsErrorResult(o) == ~o.raised /\ o.value.kind = "obj" /\ "error" \in DOMAIN o.value.map

\* a step that runs a tool-invoking method or a demo method
CallKeepsSession ==
    (/\ pc \in {"rw_review", "rw_debug1", "rw_debug2", "fw_profile", "fw_search",
                 "fw_fit", "fw_proposal", "fw_negotiate", "rid_demo", "im_input"}
     /\ last'.method \in ToolMethods \cup {DemoNames[i] : i \in 1..9}) =>
        (/\ UNCHANGED <<session, read, write, client_context, sessions, transports>>
         /\ (pc = "rw_review" /\ IsErrorResult(last'.out)) => pc' = "rw_debug1"
         /\ (pc = "rw_debug1" /\ IsErrorResult(last'.out)) => pc' = "rw_debug2"
         /\ (pc = "im_input" /\ (~last'.out.raised \/ IsException(last'.out))) =>
               pc' = "im_input")

\* C23: a tool call leaves the session as it was, also when it ends in an
\* Error result or in an exception, and the operation that follows a failed
\* one is started on that session
C23_CallKeepsSession == [][CallKeepsSession]_vars

C23_Witness ==
    /\ last.method = "review_code_file"
    /\ IsException(last.arg)
    /\ last.out = ErrorResult(<<"Failed to ", "review code", ": ">> \o last.arg.msg)
    /\ pc = "rw_debug1"
    /\ SessionUsable

\* C26: when demo_code_review or demo_code_debug returns or raises, the
\* sample file it wrote and the backups of it are gone, whatever the tool
\* call returned or raised, unless the removal itself failed
C26_SampleFilesRemoved ==
    /\ (last.method = "demo_code_review" /\ last.out # Raise("OSError", <<"unlink">>)) =>
          "sample_payment_form.js" \notin files
    /\ (last.method = "demo_code_debug" /\ last.out # Raise("OSError", <<"unlink">>)) =>
          (files \cap {"buggy_code.js", BackupFile} = {})

C26_Witness ==
    /\ last.method = "demo_code_debug"
    /\ last.arg = Interrupt
    /\ last.out = Interrupt
    /\ files = {}

C25_ResultIsMapping ==
    (mode = "client2" /\ last.method \in ToolMethods /\ ~last.out.raised) =>
        /\ last.out.value.kind = "obj"
        /\ pend \notin {Raise("TypeError", <<"argument is not iterable">>),
                        Raise("AttributeError", <<"object has no attribute 'items'">>)}

\* C27: when the body of demonstrate_code_review_workflow has ended, normally
\* or by an exception raised after sample_code_demo.py was created, and only
\* the exit of the session remains, the file has been removed (a removal that
\* itself failed is left aside)
C27_ReviewFileRemoved ==
    (/\ mode = "client2"
     /\ pc = "rw_exit"
     /\ last # Op("os.remove", "", ReviewFile, Raise("OSError", <<"remove">>))) =>
        ReviewFile \notin files

\* C28: demonstrate_freelance_workflow calls create_user_profile,
\* search_gigs, analyze_profile_fit, generate_proposal and negotiate_rate in
\* this order, each next call only when the condition on the previous
\* result holds, and an Error result of any step suppresses the later steps
FwInOrder ==
    /\ pc' = "fw_search" => pc = "fw_profile"
    /\ pc' = "fw_fit" =>
          pc = "fw_search" /\ Truthy(PyGet(last'.out.value, "gigs"))
    /\ pc' = "fw_proposal" =>
          pc = "fw_fit" /\ PyGet(last'.out.value, "overall_score").n > 50
    /\ pc' = "fw_negotiate" =>
          pc = "fw_proposal" /\ Truthy(PyGet(last'.out.value, "proposed_rate"))
    /\ (pc \in {"fw_profile", "fw_search", "fw_fit", "fw_proposal"}
          /\ IsErrorResult(last'.out)) => pc' = "fw_exit"

C28_FwInOrder == [][FwInOrder]_vars

\* C29: the mapping search_gigs sends has skills, and has max_budget
\* (platforms) exactly when the caller passed a value other than None, a
\* max_budget of 0 and an empty platforms list included; negotiate_rate
\* sends justification_points exactly when the caller passed one
C29_OptionalsSentWhenSupplied ==
    /\ (mode = "args" /\ last.method = "search_gigs") =>
          /\ "skills" \in DOMAIN last.out
          /\ ("max_budget" \in DOMAIN last.out) <=> (last.arg.max_budget # PyNone)
          /\ ("platforms" \in DOMAIN last.out) <=> (last.arg.platforms # PyNone)
    /\ (mode = "args" /\ last.method = "negotiate_rate") =>
          (("justification_points" \in DOMAIN last.out)
              <=> (last.arg.justification_points # PyNone))

====
